---- MODULE Spec2Model ----
(***************************************************************************)
(* Model of MigrationStats (userMigrationDash.py): the JSON cache file,    *)
(* should_update_cache, and get_migration_stats with its database          *)
(* connection, its four queries, its cache write and its finally block.    *)
(*                                                                         *)
(* Time is in whole seconds.  A Python value is a record                   *)
(*   [t, n, s, key, kids]                                                  *)
(* t the type, n the number (a float is held in hundredths), s the text of *)
(* a string, kids the elements of a list or the entries of a dict, key the *)
(* key under which the value sits in its dict ("" elsewhere).  The cache   *)
(* file holds the sequence of JSON tokens json.dump wrote; json.load       *)
(* parses that sequence.                                                   *)
(***************************************************************************)
EXTENDS Integers, Sequences, FiniteSets, TLC

\* ------------------------------------------------------------ bounds
MaxCalls == 2
MaxTicks == 2
MaxUsers == 3
MaxDbChanges == 1
MaxCount == 100

\* ------------------------------------------------- program constants
CacheDuration == 300

Procs == {1, 2}
Hour == 60 * 60
Day == 24 * Hour
T0 == 10 * Day
TickSteps == {1, CacheDuration}

\* ------------------------------------------------------ Python values
PyVal(t, n, s, kids) == [t |-> t, n |-> n, s |-> s, key |-> "", kids |-> kids]
PyNone == PyVal("none", 0, "", <<>>)
PyInt(n) == PyVal("int", n, "", <<>>)
PyFloat(h) == PyVal("float", h, "", <<>>)
\* A string: s names the format of the text, n the value the text spells.
\* "iso" is datetime.isoformat() of time n, "hour" is '%Y-%m-%d %H:00:00' of
\* hour n, "date" is str(date) of day n, "text" is any other non-empty text,
\* "" is the empty string.
PyStr(s, n) == PyVal("str", n, s, <<>>)
PyList(kids) == PyVal("list", 0, "", kids)
PyDict(kids) == PyVal("dict", 0, "", kids)
Entry(k, v) == [v EXCEPT !.key = k]

\* dict.get(key, default): the entry under key, as a value
DictGet(d, k, default) ==
  LET idx == {i \in 1..Len(d.kids) : d.kids[i].key = k}
  IN IF idx = {} THEN default
     ELSE Entry("", d.kids[CHOOSE i \in idx : \A j \in idx : j <= i])

\* -------------------------------------------------------- JSON tokens
Tok(k, s, n) == [k |-> k, s |-> s, n |-> n]

RECURSIVE JsonDump(_)
RECURSIVE DumpKids(_, _, _)
DumpKids(kids, i, keyed) ==
  IF i > Len(kids) THEN <<>>
  ELSE (IF keyed THEN <<Tok("key", kids[i].key, 0)>> ELSE <<>>)
       \o JsonDump(kids[i]) \o DumpKids(kids, i + 1, keyed)

\* the same with a float written as a whole number
JsonDump_IntRate(v) ==
  CASE v.t = "dict" -> <<Tok("{", "", 0)>> \o DumpKids(v.kids, 1, TRUE) \o <<Tok("}", "", 0)>>
    [] v.t = "list" -> <<Tok("[", "", 0)>> \o DumpKids(v.kids, 1, FALSE) \o <<Tok("]", "", 0)>>
    [] v.t = "str" -> <<Tok("str", v.s, v.n)>>
    [] v.t = "int" -> <<Tok("int", "", v.n)>>
    [] v.t = "float" -> <<Tok("int", "", v.n \div 100)>>
    [] OTHER -> <<Tok("null", "", 0)>>

\* json.dump(stats, f): the text written, as tokens
JsonDump(v) ==
  CASE v.t = "dict" -> <<Tok("{", "", 0)>> \o DumpKids(v.kids, 1, TRUE) \o <<Tok("}", "", 0)>>
    [] v.t = "list" -> <<Tok("[", "", 0)>> \o DumpKids(v.kids, 1, FALSE) \o <<Tok("]", "", 0)>>
    [] v.t = "str" -> <<Tok("str", v.s, v.n)>>
    [] v.t = "int" -> <<Tok("int", "", v.n)>>
    [] v.t = "float" -> <<Tok("float", "", v.n)>>
    [] OTHER -> <<Tok("null", "", 0)>>

ParseFail == [ok |-> FALSE, v |-> PyNone, next |-> 0]
ParseOk(v, next) == [ok |-> TRUE, v |-> v, next |-> next]

RECURSIVE ParseValue(_, _)
RECURSIVE ParseKids(_, _, _, _)
\* the members of an object (keyed) or the elements of an array, up to the
\* closing token; acc holds those parsed so far
ParseKids(toks, i, keyed, acc) ==
  IF i > Len(toks) THEN ParseFail
  ELSE IF toks[i].k = (IF keyed THEN "}" ELSE "]") THEN
    ParseOk(IF keyed THEN PyDict(acc) ELSE PyList(acc), i + 1)
  ELSE IF keyed THEN
    IF toks[i].k # "key" THEN ParseFail
    ELSE LET r == ParseValue(toks, i + 1)
         IN IF ~r.ok THEN ParseFail
            ELSE ParseKids(toks, r.next, keyed, Append(acc, Entry(toks[i].s, r.v)))
  ELSE LET r == ParseValue(toks, i)
       IN IF ~r.ok THEN ParseFail
          ELSE ParseKids(toks, r.next, keyed, Append(acc, r.v))

ParseValue(toks, i) ==
  IF i > Len(toks) THEN ParseFail
  ELSE LET k == toks[i].k
       IN CASE k = "{" -> ParseKids(toks, i + 1, TRUE, <<>>)
            [] k = "[" -> ParseKids(toks, i + 1, FALSE, <<>>)
            [] k = "str" -> ParseOk(PyStr(toks[i].s, toks[i].n), i + 1)
            [] k = "int" -> ParseOk(PyInt(toks[i].n), i + 1)
            [] k = "float" -> ParseOk(PyFloat(toks[i].n), i + 1)
            [] k = "null" -> ParseOk(PyNone, i + 1)
            [] OTHER -> ParseFail

\* json.load(f): ok is FALSE where json.load raises JSONDecodeError (no
\* value, an unfinished value, or text after the value)
JsonLoad(toks) ==
  LET r == ParseValue(toks, 1)
  IN IF r.ok /\ r.next = Len(toks) + 1 THEN [ok |-> TRUE, v |-> r.v]
     ELSE [ok |-> FALSE, v |-> PyNone]

\* ------------------------------------------------------ the cache file
AbsentFile == [exists |-> FALSE, toks |-> <<>>]
FileOf(toks) == [exists |-> TRUE, toks |-> toks]

\* datetime.fromisoformat(x) succeeds (x is a str here)
IsIsoFormat(x) == x.s = "iso"

BoolResult(b) == [raised |-> "", value |-> b]
Raised(e) == [raised |-> e, value |-> FALSE]

\* the same with the comparison of line 40 written >=
ShouldUpdateCache_AtLeast(f, clock) ==
  IF ~f.exists THEN BoolResult(TRUE)
  ELSE LET cache == JsonLoad(f.toks)
       IN IF ~cache.ok THEN BoolResult(TRUE)
          ELSE IF cache.v.t # "dict" THEN Raised("AttributeError")
          ELSE LET x == DictGet(cache.v, "last_update", PyStr("", 0))
               IN IF x.t # "str" THEN Raised("TypeError")
                  ELSE IF ~IsIsoFormat(x) THEN BoolResult(TRUE)
                  ELSE BoolResult(clock - x.n >= CacheDuration)

\* should_update_cache(): the value returned, or the exception that leaves it
\* (only JSONDecodeError, ValueError and KeyError are caught)
ShouldUpdateCache(f, clock) ==
  IF ~f.exists THEN BoolResult(TRUE)
  ELSE LET cache == JsonLoad(f.toks)
       IN IF ~cache.ok THEN BoolResult(TRUE)
          ELSE IF cache.v.t # "dict" THEN Raised("AttributeError")
          ELSE LET x == DictGet(cache.v, "last_update", PyStr("", 0))
               IN IF x.t # "str" THEN Raised("TypeError")
                  ELSE IF ~IsIsoFormat(x) THEN BoolResult(TRUE)
                  ELSE BoolResult(clock - x.n > CacheDuration)

\* ---------------------------------------------------- the users table
\* A row is [token, updated_at]: token says cm_firebase_token IS NOT NULL.
\* The table is a bag of rows: the number of users with each row value.
UpdatedAts == {T0 - 8 * Day, T0 - 2 * Day, T0 - 2 * Hour, T0 - Hour}
PendingRow == [token |-> FALSE, updated_at |-> T0 - 2 * Day]
MigratedRow(u) == [token |-> TRUE, updated_at |-> u]
Rows == {PendingRow} \cup {MigratedRow(u) : u \in UpdatedAts}

RECURSIVE CountRows(_, _)
CountRows(table, S) ==
  IF S = {} THEN 0
  ELSE LET r == CHOOSE x \in S : TRUE
       IN table[r] + CountRows(table, S \ {r})

\* SELECT COUNT(*) as total FROM users
CountTotal(table) == CountRows(table, Rows)

\* SELECT COUNT(*) as migrated FROM users WHERE cm_firebase_token IS NOT NULL
CountMigrated(table) == CountRows(table, {r \in Rows : r.token})

RECURSIVE Ascending(_)
Ascending(S) ==
  IF S = {} THEN <<>>
  ELSE LET m == CHOOSE x \in S : \A y \in S : x <= y
       IN <<m>> \o Ascending(S \ {m})

\* str(item[...]) of lines 76 and 91
PyStrOf(v) == IF v.t = "str" THEN v ELSE PyStr(v.t, v.n)

\* the hourly query and the conversion of line 76
HourlyData(table, clock) ==
  LET recent == {r \in Rows : r.token /\ table[r] > 0
                               /\ r.updated_at >= clock - 24 * Hour}
      hours == Ascending({r.updated_at \div Hour : r \in recent})
  IN [i \in 1..Len(hours) |->
        PyDict(<<Entry("hour", PyStrOf(PyStr("hour", hours[i]))),
                 Entry("count", PyInt(CountRows(table,
                   {r \in recent : r.updated_at \div Hour = hours[i]})))>>)]

\* the daily query and the conversion of line 91
DailyData(table, clock) ==
  LET recent == {r \in Rows : r.token /\ table[r] > 0
                               /\ r.updated_at >= clock - 7 * Day}
      dates == Ascending({r.updated_at \div Day : r \in recent})
  IN [i \in 1..Len(dates) |->
        PyDict(<<Entry("date", PyStrOf(PyVal("date", dates[i], "", <<>>))),
                 Entry("count", PyInt(CountRows(table,
                   {r \in recent : r.updated_at \div Day = dates[i]})))>>)]

\* round(a / b, 0) for a >= 0, b > 0, as Python rounds: to the nearest, a
\* tie to the even neighbour
RoundDiv(a, b) ==
  LET q == a \div b
      r == a % b
  IN IF 2 * r < b THEN q
     ELSE IF 2 * r > b THEN q + 1
     ELSE IF q % 2 = 0 THEN q ELSE q + 1

\* the same cut off instead of rounded
MigrationRate_Truncated(migrated, total) ==
  IF total > 0 THEN PyFloat((migrated * 10000) \div total) ELSE PyInt(0)

\* round((migrated_users / total_users * 100), 2) if total_users > 0 else 0
MigrationRate(migrated, total) ==
  IF total > 0 THEN PyFloat(RoundDiv(migrated * 10000, total)) ELSE PyInt(0)

\* the stats dict of lines 93-101
Stats(total, migrated, hourly, daily, clock) ==
  PyDict(<<Entry("total_users", PyInt(total)),
           Entry("migrated_users", PyInt(migrated)),
           Entry("pending_users", PyInt(total - migrated)),
           Entry("migration_rate", MigrationRate(migrated, total)),
           Entry("hourly_data", PyList(hourly)),
           Entry("daily_data", PyList(daily)),
           Entry("last_update", PyStr("iso", clock))>>)

\* ------------------------------------------------------------- state
VARIABLES
  now,            \* the clock datetime.now() and NOW() read
  ticks,          \* clock advances so far
  users,          \* the users table
  dbchanges,      \* changes made to the table so far
  file,           \* migration_stats_cache.json
  stored,         \* the stats last written in full by json.dump (PyNone: none yet)
  pc,             \* where each caller is in get_migration_stats
  calls,          \* calls each caller has begun
  su,             \* what should_update_cache did: "", "true", "false", "raised"
  checked_at,     \* the datetime.now() of line 40
  before,         \* the cache file when the call began
  conn,           \* the local conn: "unbound", "open", "closed"
  cursor,         \* the local cursor: "unbound", "open", "closed"
  connects,       \* connection attempts of the call
  total_users,
  migrated_users,
  hourly_data,
  daily_data,
  stats,
  exc,            \* the exception in flight through the finally block ("": none)
  failed_at,      \* the step that raised it
  result          \* what the call gave its caller

envVars == <<now, ticks, users, dbchanges>>
fileVars == <<file, stored>>
dbLocals == <<conn, cursor, connects>>
dataLocals == <<total_users, migrated_users, hourly_data, daily_data, stats>>
callVars == <<calls, su, checked_at, before>>
vars == <<now, ticks, users, dbchanges, file, stored, pc, calls, su, checked_at,
          before, conn, cursor, connects, total_users, migrated_users,
          hourly_data, daily_data, stats, exc, failed_at, result>>

NoResult == [kind |-> "none", exc |-> "", v |-> PyNone]
Return(v) == [kind |-> "return", exc |-> "", v |-> v]
Raise(e) == [kind |-> "raise", exc |-> e, v |-> PyNone]

\* ------------------------------------------------------ initial states
EmptyTable == [r \in Rows |-> 0]
MixedTable == [r \in Rows |->
  IF r = PendingRow \/ r = MigratedRow(T0 - 2 * Day) \/ r = MigratedRow(T0 - 2 * Hour)
  THEN 1 ELSE 0]

BusyTable == [r \in Rows |->
  IF r = MigratedRow(T0 - 2 * Day) \/ r = MigratedRow(T0 - 2 * Hour)
     \/ r = MigratedRow(T0 - Hour)
  THEN 1 ELSE 0]

\* a snapshot an earlier run stored at time t
OldStats(t) == Stats(4, 1, <<>>, DailyData(MixedTable, t), t)

\* cache files an earlier run, or anything else, may have left behind
SnapshotFiles == {FileOf(JsonDump(OldStats(T0 - a))) :
                    a \in {CacheDuration - 1, CacheDuration, CacheDuration + 1}}
BrokenFiles ==
  { AbsentFile,
    FileOf(<<>>),
    FileOf(SubSeq(JsonDump(OldStats(T0)), 1, 5)),
    FileOf(JsonDump(PyList(<<>>))),
    FileOf(JsonDump(PyInt(7))),
    FileOf(JsonDump(PyNone)),
    FileOf(JsonDump(PyDict(<<Entry("total_users", PyInt(1))>>))),
    FileOf(JsonDump(PyDict(<<Entry("last_update", PyNone)>>))),
    FileOf(JsonDump(PyDict(<<Entry("last_update", PyInt(5))>>))),
    FileOf(JsonDump(PyDict(<<Entry("last_update", PyStr("text", 0))>>))) }

InitLocals ==
  /\ pc = [p \in Procs |-> "idle"]
  /\ su = [p \in Procs |-> ""]
  /\ checked_at = [p \in Procs |-> 0]
  /\ before = [p \in Procs |-> AbsentFile]
  /\ conn = [p \in Procs |-> "unbound"]
  /\ cursor = [p \in Procs |-> "unbound"]
  /\ connects = [p \in Procs |-> 0]
  /\ total_users = [p \in Procs |-> 0]
  /\ migrated_users = [p \in Procs |-> 0]
  /\ hourly_data = [p \in Procs |-> <<>>]
  /\ daily_data = [p \in Procs |-> <<>>]
  /\ stats = [p \in Procs |-> PyNone]
  /\ exc = [p \in Procs |-> ""]
  /\ failed_at = [p \in Procs |-> ""]
  /\ result = [p \in Procs |-> NoResult]

Init ==
  /\ now = T0
  /\ ticks = 0
  /\ users \in {EmptyTable, MixedTable, BusyTable}
  /\ dbchanges = 0
  /\ file \in SnapshotFiles \cup BrokenFiles
  /\ stored = PyNone
  /\ calls = [p \in Procs |-> 0]
  /\ InitLocals

\* -------------------------------------------------------- environment
\* The clock is read by should_update_cache (line 40), by NOW() in the
\* hourly and daily queries (lines 70, 85) and by line 100; the table is read
\* by the four queries.  Time passing, or a change of the table, at any other
\* moment shows only at the next read, so the environment moves right
\* before one.
ClockReads == {"check", "q_hourly", "q_daily", "build"}
QuerySteps == {"q_total", "q_migrated", "q_hourly", "q_daily"}

Tick ==
  /\ ticks < MaxTicks
  /\ \E p \in Procs : pc[p] \in ClockReads
  /\ \E d \in TickSteps : now' = now + d
  /\ ticks' = ticks + 1
  /\ UNCHANGED <<users, dbchanges, fileVars, pc, callVars, dbLocals, dataLocals,
                 exc, failed_at, result>>

InsertUser ==
  /\ dbchanges < MaxDbChanges
  /\ \E p \in Procs : pc[p] \in QuerySteps
  /\ CountTotal(users) < MaxUsers
  /\ \E r \in Rows : users' = [users EXCEPT ![r] = @ + 1]
  /\ dbchanges' = dbchanges + 1
  /\ UNCHANGED <<now, ticks, fileVars, pc, callVars, dbLocals, dataLocals,
                 exc, failed_at, result>>

DeleteUser ==
  /\ dbchanges < MaxDbChanges
  /\ \E p \in Procs : pc[p] \in QuerySteps
  /\ \E r \in Rows : /\ users[r] > 0
                     /\ users' = [users EXCEPT ![r] = @ - 1]
  /\ dbchanges' = dbchanges + 1
  /\ UNCHANGED <<now, ticks, fileVars, pc, callVars, dbLocals, dataLocals,
                 exc, failed_at, result>>

\* a pending user gets a token; updated_at becomes the latest time modelled
MigrateUser ==
  /\ dbchanges < MaxDbChanges
  /\ \E p \in Procs : pc[p] \in QuerySteps
  /\ users[PendingRow] > 0
  /\ users' = [users EXCEPT ![PendingRow] = @ - 1,
                            ![MigratedRow(T0 - Hour)] = @ + 1]
  /\ dbchanges' = dbchanges + 1
  /\ UNCHANGED <<now, ticks, fileVars, pc, callVars, dbLocals, dataLocals,
                 exc, failed_at, result>>

\* ------------------------------------------------ get_migration_stats
\* the caller (main, line 143) calls get_migration_stats
Call(p) ==
  /\ pc[p] \in {"idle", "done"}
  /\ calls[p] < MaxCalls
  /\ calls' = [calls EXCEPT ![p] = @ + 1]
  /\ pc' = [pc EXCEPT ![p] = "check"]
  /\ su' = [su EXCEPT ![p] = ""]
  /\ checked_at' = [checked_at EXCEPT ![p] = 0]
  /\ before' = [before EXCEPT ![p] = file]
  /\ conn' = [conn EXCEPT ![p] = "unbound"]
  /\ cursor' = [cursor EXCEPT ![p] = "unbound"]
  /\ connects' = [connects EXCEPT ![p] = 0]
  /\ total_users' = [total_users EXCEPT ![p] = 0]
  /\ migrated_users' = [migrated_users EXCEPT ![p] = 0]
  /\ hourly_data' = [hourly_data EXCEPT ![p] = <<>>]
  /\ daily_data' = [daily_data EXCEPT ![p] = <<>>]
  /\ stats' = [stats EXCEPT ![p] = PyNone]
  /\ exc' = [exc EXCEPT ![p] = ""]
  /\ failed_at' = [failed_at EXCEPT ![p] = ""]
  /\ result' = [result EXCEPT ![p] = NoResult]
  /\ UNCHANGED <<envVars, fileVars>>

\* line 47 with the test inverted: a fresh cache goes on to the database
Check_Inverted(p) ==
  /\ pc[p] = "check"
  /\ LET r == ShouldUpdateCache(file, now)
     IN /\ su' = [su EXCEPT ![p] = IF r.raised # "" THEN "raised"
                                   ELSE IF r.value THEN "true" ELSE "false"]
        /\ pc' = [pc EXCEPT ![p] = IF r.raised # "" THEN "done"
                                   ELSE IF r.value THEN "read" ELSE "connect"]
        /\ result' = [result EXCEPT ![p] = IF r.raised # "" THEN Raise(r.raised)
                                           ELSE NoResult]
  /\ checked_at' = [checked_at EXCEPT ![p] = now]
  /\ UNCHANGED <<envVars, fileVars, calls, before, dbLocals, dataLocals,
                 exc, failed_at>>

\* line 47: if not self.should_update_cache()
Check(p) ==
  /\ pc[p] = "check"
  /\ LET r == ShouldUpdateCache(file, now)
     IN /\ su' = [su EXCEPT ![p] = IF r.raised # "" THEN "raised"
                                   ELSE IF r.value THEN "true" ELSE "false"]
        /\ pc' = [pc EXCEPT ![p] = IF r.raised # "" THEN "done"
                                   ELSE IF r.value THEN "connect" ELSE "read"]
        /\ result' = [result EXCEPT ![p] = IF r.raised # "" THEN Raise(r.raised)
                                           ELSE NoResult]
  /\ checked_at' = [checked_at EXCEPT ![p] = now]
  /\ UNCHANGED <<envVars, fileVars, calls, before, dbLocals, dataLocals,
                 exc, failed_at>>

\* lines 48-49: open the cache file and return json.load(f)
ReadCache(p) ==
  /\ pc[p] = "read"
  /\ LET cache == JsonLoad(file.toks)
     IN result' = [result EXCEPT ![p] =
          IF ~file.exists THEN Raise("FileNotFoundError")
          ELSE IF ~cache.ok THEN Raise("JSONDecodeError")
          ELSE Return(cache.v)]
  /\ pc' = [pc EXCEPT ![p] = "done"]
  /\ UNCHANGED <<envVars, fileVars, callVars, dbLocals, dataLocals, exc, failed_at>>

\* an exception raised inside the try block: control goes to the finally block
Fails(p, e) ==
  /\ exc' = [exc EXCEPT ![p] = e]
  /\ failed_at' = [failed_at EXCEPT ![p] = pc[p]]
  /\ pc' = [pc EXCEPT ![p] = "finally"]

\* line 52: conn = self.get_db_connection()
ConnectOk(p) ==
  /\ pc[p] = "connect"
  /\ conn' = [conn EXCEPT ![p] = "open"]
  /\ connects' = [connects EXCEPT ![p] = @ + 1]
  /\ pc' = [pc EXCEPT ![p] = "cursor"]
  /\ UNCHANGED <<envVars, fileVars, callVars, cursor, dataLocals, exc, failed_at, result>>

\* line 52 when pymysql.connect raises
ConnectFails(p) ==
  /\ pc[p] = "connect"
  /\ connects' = [connects EXCEPT ![p] = @ + 1]
  /\ Fails(p, "OperationalError")
  /\ UNCHANGED <<envVars, fileVars, callVars, conn, cursor, dataLocals, result>>

\* line 53: cursor = conn.cursor()
CursorOk(p) ==
  /\ pc[p] = "cursor"
  /\ cursor' = [cursor EXCEPT ![p] = "open"]
  /\ pc' = [pc EXCEPT ![p] = "q_total"]
  /\ UNCHANGED <<envVars, fileVars, callVars, conn, connects, dataLocals,
                 exc, failed_at, result>>

\* line 53 when conn.cursor() raises
CursorFails(p) ==
  /\ pc[p] = "cursor"
  /\ Fails(p, "CursorError")
  /\ UNCHANGED <<envVars, fileVars, callVars, dbLocals, dataLocals, result>>

\* lines 56-57
QueryTotal(p) ==
  /\ pc[p] = "q_total"
  /\ total_users' = [total_users EXCEPT ![p] = CountTotal(users)]
  /\ pc' = [pc EXCEPT ![p] = "q_migrated"]
  /\ UNCHANGED <<envVars, fileVars, callVars, dbLocals, migrated_users,
                 hourly_data, daily_data, stats, exc, failed_at, result>>

\* lines 60-61
QueryMigrated(p) ==
  /\ pc[p] = "q_migrated"
  /\ migrated_users' = [migrated_users EXCEPT ![p] = CountMigrated(users)]
  /\ pc' = [pc EXCEPT ![p] = "q_hourly"]
  /\ UNCHANGED <<envVars, fileVars, callVars, dbLocals, total_users,
                 hourly_data, daily_data, stats, exc, failed_at, result>>

\* lines 64-76
QueryHourly(p) ==
  /\ pc[p] = "q_hourly"
  /\ hourly_data' = [hourly_data EXCEPT ![p] = HourlyData(users, now)]
  /\ pc' = [pc EXCEPT ![p] = "q_daily"]
  /\ UNCHANGED <<envVars, fileVars, callVars, dbLocals, total_users,
                 migrated_users, daily_data, stats, exc, failed_at, result>>

\* lines 79-91
QueryDaily(p) ==
  /\ pc[p] = "q_daily"
  /\ daily_data' = [daily_data EXCEPT ![p] = DailyData(users, now)]
  /\ pc' = [pc EXCEPT ![p] = "build"]
  /\ UNCHANGED <<envVars, fileVars, callVars, dbLocals, total_users,
                 migrated_users, hourly_data, stats, exc, failed_at, result>>

\* cursor.execute of any of the four queries raises
QueryFails(p) ==
  /\ pc[p] \in QuerySteps
  /\ Fails(p, "DatabaseError")
  /\ UNCHANGED <<envVars, fileVars, callVars, dbLocals, dataLocals, result>>

\* lines 93-101
BuildStats(p) ==
  /\ pc[p] = "build"
  /\ stats' = [stats EXCEPT ![p] =
       Stats(total_users[p], migrated_users[p], hourly_data[p], daily_data[p], now)]
  /\ pc' = [pc EXCEPT ![p] = "open_w"]
  /\ UNCHANGED <<envVars, fileVars, callVars, dbLocals, total_users,
                 migrated_users, hourly_data, daily_data, exc, failed_at, result>>

\* line 104: open(self.cache_file, 'w') creates the file or cuts it to nothing
OpenCacheOk(p) ==
  /\ pc[p] = "open_w"
  /\ file' = FileOf(<<>>)
  /\ pc' = [pc EXCEPT ![p] = "dump"]
  /\ UNCHANGED <<envVars, stored, callVars, dbLocals, dataLocals, exc, failed_at, result>>

\* line 104 when open raises (no permission): the file is not touched
OpenCacheFails(p) ==
  /\ pc[p] = "open_w"
  /\ Fails(p, "OSError")
  /\ UNCHANGED <<envVars, fileVars, callVars, dbLocals, dataLocals, result>>

\* what a write of toks at offset 0 leaves of a file holding old
WriteAt0(toks, old) ==
  IF Len(old) > Len(toks) THEN toks \o SubSeq(old, Len(toks) + 1, Len(old))
  ELSE toks

\* line 105 and the end of the with block: json.dump(stats, f), close
DumpOk(p) ==
  /\ pc[p] = "dump"
  /\ file' = FileOf(WriteAt0(JsonDump(stats[p]), file.toks))
  /\ stored' = stats[p]
  /\ pc' = [pc EXCEPT ![p] = "finally"]
  /\ UNCHANGED <<envVars, callVars, dbLocals, dataLocals, exc, failed_at, result>>

\* line 105 when the write fails part way (disk full): what was written stays
DumpFails(p) ==
  /\ pc[p] = "dump"
  /\ \E k \in {0, Len(JsonDump(stats[p])) \div 2} :
       file' = FileOf(WriteAt0(SubSeq(JsonDump(stats[p]), 1, k), file.toks))
  /\ Fails(p, "OSError")
  /\ UNCHANGED <<envVars, stored, callVars, dbLocals, dataLocals, result>>

\* the call is over: its data locals are gone with its frame
FrameGone(p) ==
  /\ total_users' = [total_users EXCEPT ![p] = 0]
  /\ migrated_users' = [migrated_users EXCEPT ![p] = 0]
  /\ hourly_data' = [hourly_data EXCEPT ![p] = <<>>]
  /\ daily_data' = [daily_data EXCEPT ![p] = <<>>]
  /\ stats' = [stats EXCEPT ![p] = PyNone]

\* line 110: cursor.close()
CloseCursor(p) ==
  /\ pc[p] = "finally"
  /\ cursor[p] # "unbound"
  /\ cursor' = [cursor EXCEPT ![p] = "closed"]
  /\ pc' = [pc EXCEPT ![p] = "finally_conn"]
  /\ UNCHANGED <<envVars, fileVars, callVars, conn, connects, dataLocals,
                 exc, failed_at, result>>

\* line 110 when cursor was never assigned: UnboundLocalError leaves the
\* finally block, in place of the exception in flight, before line 111
CloseCursorUnbound(p) ==
  /\ pc[p] = "finally"
  /\ cursor[p] = "unbound"
  /\ result' = [result EXCEPT ![p] = Raise("UnboundLocalError")]
  /\ pc' = [pc EXCEPT ![p] = "done"]
  /\ FrameGone(p)
  /\ UNCHANGED <<envVars, fileVars, callVars, dbLocals, exc, failed_at>>

\* line 111: conn.close(); then the return of line 107, or the exception
CloseConn(p) ==
  /\ pc[p] = "finally_conn"
  /\ conn' = [conn EXCEPT ![p] = "closed"]
  /\ result' = [result EXCEPT ![p] = IF exc[p] # "" THEN Raise(exc[p])
                                     ELSE Return(stats[p])]
  /\ pc' = [pc EXCEPT ![p] = "done"]
  /\ FrameGone(p)
  /\ UNCHANGED <<envVars, fileVars, callVars, cursor, connects, exc, failed_at>>

\* -------------------------------------------------------------- specs
\* one caller; the clock moves under it; any step may fail
Next ==
  \/ Tick
  \/ \E p \in {1} :
       \/ Call(p)
       \/ Check(p)
       \/ ReadCache(p)
       \/ ConnectOk(p)
       \/ ConnectFails(p)
       \/ CursorOk(p)
       \/ CursorFails(p)
       \/ QueryTotal(p)
       \/ QueryMigrated(p)
       \/ QueryHourly(p)
       \/ QueryDaily(p)
       \/ QueryFails(p)
       \/ BuildStats(p)
       \/ OpenCacheOk(p)
       \/ OpenCacheFails(p)
       \/ DumpOk(p)
       \/ DumpFails(p)
       \/ CloseCursor(p)
       \/ CloseCursorUnbound(p)
       \/ CloseConn(p)

Spec == Init /\ [][Next]_vars

\* the same with users inserted, deleted and migrated while it runs
NextDb ==
  \/ Next
  \/ InsertUser
  \/ DeleteUser
  \/ MigrateUser

SpecDb == Init /\ [][NextDb]_vars

\* two callers, each with one call to make, on one cache file; nothing fails
InitConc ==
  /\ now = T0
  /\ ticks = 0
  /\ users = MixedTable
  /\ dbchanges = 0
  /\ file \in {AbsentFile, FileOf(JsonDump(OldStats(T0 - CacheDuration)))}
  /\ stored = PyNone
  /\ calls = [p \in Procs |-> MaxCalls - 1]
  /\ InitLocals

NextConc ==
  \/ Tick
  \/ \E p \in Procs :
       \/ Call(p)
       \/ Check(p)
       \/ ReadCache(p)
       \/ ConnectOk(p)
       \/ CursorOk(p)
       \/ QueryTotal(p)
       \/ QueryMigrated(p)
       \/ QueryHourly(p)
       \/ QueryDaily(p)
       \/ BuildStats(p)
       \/ OpenCacheOk(p)
       \/ DumpOk(p)
       \/ CloseCursor(p)
       \/ CloseConn(p)

SpecConc == InitConc /\ [][NextConc]_vars

\* lines 93-101 alone, on every pair of counts up to MaxCount
InitRate ==
  /\ now = T0
  /\ ticks = 0
  /\ users = EmptyTable
  /\ dbchanges = 0
  /\ file = AbsentFile
  /\ stored = PyNone
  /\ calls = [p \in Procs |-> IF p = 1 THEN 1 ELSE 0]
  /\ pc = [p \in Procs |-> IF p = 1 THEN "build" ELSE "idle"]
  /\ su = [p \in Procs |-> IF p = 1 THEN "true" ELSE ""]
  /\ checked_at = [p \in Procs |-> IF p = 1 THEN T0 ELSE 0]
  /\ before = [p \in Procs |-> AbsentFile]
  /\ conn = [p \in Procs |-> IF p = 1 THEN "open" ELSE "unbound"]
  /\ cursor = [p \in Procs |-> IF p = 1 THEN "open" ELSE "unbound"]
  /\ connects = [p \in Procs |-> IF p = 1 THEN 1 ELSE 0]
  /\ \E t \in 0..MaxCount, m \in 0..MaxCount :
       /\ total_users = [p \in Procs |-> IF p = 1 THEN t ELSE 0]
       /\ migrated_users = [p \in Procs |-> IF p = 1 THEN m ELSE 0]
  /\ hourly_data = [p \in Procs |-> <<>>]
  /\ daily_data = [p \in Procs |-> <<>>]
  /\ stats = [p \in Procs |-> PyNone]
  /\ exc = [p \in Procs |-> ""]
  /\ failed_at = [p \in Procs |-> ""]
  /\ result = [p \in Procs |-> NoResult]

NextRate == \E p \in {1} : BuildStats(p)

SpecRate == InitRate /\ [][NextRate]_vars

\* ------------------------------------------------------------- claims
Field(v, k) == DictGet(v, k, PyNone)

\* the file is a usable snapshot: a JSON object whose last_update is an
\* ISO-8601 timestamp string
UsableSnapshot(f) ==
  /\ f.exists
  /\ JsonLoad(f.toks).ok
  /\ JsonLoad(f.toks).v.t = "dict"
  /\ Field(JsonLoad(f.toks).v, "last_update").t = "str"
  /\ Field(JsonLoad(f.toks).v, "last_update").s = "iso"

LastUpdate(f) == Field(JsonLoad(f.toks).v, "last_update").n

SnapshotKeys == <<"total_users", "migrated_users", "pending_users",
                  "migration_rate", "hourly_data", "daily_data", "last_update">>

\* v is one complete snapshot
CompleteSnapshot(v) ==
  /\ v.t = "dict"
  /\ [i \in 1..Len(v.kids) |-> v.kids[i].key] = SnapshotKeys

\* should_update_cache has just run for caller p, and the file is as it saw it
JustChecked(p) ==
  \/ pc[p] \in {"read", "connect"}
  \/ pc[p] = "done" /\ su[p] = "raised"

\* C1: should_update_cache never raises, and answers true, for every cache
\* file that is not a usable snapshot (absent, not JSON, JSON that is no
\* object, no last_update, last_update null, not a string or not a timestamp).
C1_UnusableIsStale ==
  \A p \in Procs : JustChecked(p) /\ ~UsableSnapshot(file) => su[p] = "true"

C3_FreshReadsStaleRefreshes ==
  \A p \in Procs : pc[p] = "done" =>
    /\ su[p] = "false" =>
         /\ result[p] = Return(JsonLoad(file.toks).v)
         /\ JsonLoad(file.toks).ok
         /\ connects[p] = 0
         /\ conn[p] = "unbound"
         /\ file = before[p]
    /\ su[p] = "true" /\ result[p].kind = "return" =>
         /\ connects[p] = 1
         /\ CompleteSnapshot(result[p].v)
         /\ file = FileOf(JsonDump(result[p].v))
         /\ stored = result[p].v

C3_Witness ==
  /\ pc[1] = "done"
  /\ su[1] = "true"
  /\ result[1].kind = "return"
  /\ before[1].exists
  /\ UsableSnapshot(before[1])
  /\ file # before[1]
  /\ file = FileOf(JsonDump(result[1].v))

\* C4: after a call that attempted a refresh has returned or raised, neither
\* the connection nor the cursor it opened is still open, on every exit path.
C4_NothingLeftOpen ==
  \A p \in Procs : pc[p] = "done" /\ su[p] = "true" =>
    conn[p] # "open" /\ cursor[p] # "open"

\* C5: when the connection attempt or one of the four queries fails, the
\* caller gets that database error itself, after exactly one attempt.
C5_DatabaseErrorReachesCaller ==
  \A p \in Procs :
    pc[p] = "done" /\ failed_at[p] \in {"connect"} \cup QuerySteps =>
      /\ result[p] = Raise(exc[p])
      /\ exc[p] \in {"OperationalError", "DatabaseError"}
      /\ connects[p] = 1

\* C6: a refresh that fails leaves the cache file exactly as it was before
\* the call, and the file is still stale for the next call.
C6_FailedRefreshKeepsFile ==
  \A p \in Procs :
    pc[p] = "done" /\ su[p] = "true" /\ result[p].kind = "raise" =>
      /\ file = before[p]
      /\ ShouldUpdateCache(file, now) = BoolResult(TRUE)

\* C7: with two overlapping calls the cache file is at every moment absent
\* or one complete snapshot, no call raises, and every call returns a
\* complete snapshot.
C7_FileAlwaysWhole ==
  /\ \/ ~file.exists
     \/ JsonLoad(file.toks).ok /\ CompleteSnapshot(JsonLoad(file.toks).v)
  /\ \A p \in Procs : pc[p] = "done" =>
       result[p].kind = "return" /\ CompleteSnapshot(result[p].v)

\* the part of C7 a caller sees: no call raises, every call returns a
\* complete snapshot
C7_NoCallRaises ==
  \A p \in Procs : pc[p] = "done" =>
    result[p].kind = "return" /\ CompleteSnapshot(result[p].v)

\* C8: every stats dict built by a refresh has pending_users = total_users -
\* migrated_users and 0 <= migrated_users <= total_users, whatever happens to
\* the table between the two count queries.
C8_CountsConsistent ==
  \A p \in Procs : stats[p] # PyNone =>
    /\ Field(stats[p], "pending_users").n =
         Field(stats[p], "total_users").n - Field(stats[p], "migrated_users").n
    /\ 0 <= Field(stats[p], "migrated_users").n
    /\ Field(stats[p], "migrated_users").n <= Field(stats[p], "total_users").n

\* C9: after a refresh stored stats S, a call whose check comes within 300
\* seconds of S's last_update, the file still being what that refresh wrote,
\* finds the cache fresh and returns a value equal to S in every field,
\* the series entries in the same order.
C9_StoredComesBack ==
  \A p \in Procs : stored # PyNone /\ file = FileOf(JsonDump(stored)) =>
    /\ JustChecked(p) /\ checked_at[p] - Field(stored, "last_update").n <= 300
         => su[p] = "false"
    /\ pc[p] = "done" /\ su[p] = "false" => result[p] = Return(stored)

C9_Witness ==
  /\ pc[1] = "done"
  /\ su[1] = "false"
  /\ stored # PyNone
  /\ result[1] = Return(stored)
  /\ checked_at[1] - Field(stored, "last_update").n = 300
  /\ Len(Field(stored, "hourly_data").kids) = 2
  /\ Len(Field(stored, "daily_data").kids) = 2

\* C10: in every stats dict built, migration_rate is the hundredth nearest to
\* migrated_users / total_users * 100 when total_users > 0 and the integer 0
\* when total_users = 0; 0 of 100 gives 0.0 and 1 of 4 gives 25.0.
C10_RateRounded ==
  \A p \in Procs : stats[p] # PyNone =>
    LET t == Field(stats[p], "total_users").n
        m == Field(stats[p], "migrated_users").n
        r == Field(stats[p], "migration_rate")
        d == r.n * t - m * 10000
    IN /\ t > 0 => r.t = "float" /\ 2 * d <= t /\ 2 * d >= -t
       /\ t = 0 => r = PyInt(0)
       /\ t = 100 /\ m = 0 => r = PyFloat(0)
       /\ t = 4 /\ m = 1 => r = PyFloat(2500)

C10_Witness ==
  /\ stats[1] # PyNone
  /\ Field(stats[1], "total_users") = PyInt(4)
  /\ Field(stats[1], "migrated_users") = PyInt(1)
  /\ Field(stats[1], "migration_rate") = PyFloat(2500)

====
